---- MODULE Spec2Model ----
(***************************************************************************)
(* Clock-domain-crossing generators of nmigen/lib/cdc.py, modelled as the  *)
(* hardware their elaborate() methods describe.                            *)
(*                                                                         *)
(* A register is a variable; a statement m.d[domain] += o.eq(i) is what    *)
(* the register takes at an edge of that domain's clock; a statement       *)
(* m.d.comb += o.eq(e) is recomputed at the end of every action.  Clock    *)
(* edges of unrelated domains and changes of asynchronous inputs are       *)
(* separate actions, interleaved in every order.  An edge of one domain    *)
(* that coincides with a change of the signal it samples captures either   *)
(* the old or the new value.                                               *)
(***************************************************************************)
EXTENDS Integers, Sequences, FiniteSets, TLC

VARIABLES
    stages,        \* the stage count the generators were constructed with
    \* ---- AsyncFFSynchronizer: three instances on one destination clock
    aff_i,         \* the source signal
    aff_flops,     \* instance -> stage registers stage0..stage{N-1}
    aff_o,         \* instance -> output signal o
    aff_cnt,       \* destination edges since aff_i last changed (capped at stages)
    aff_o_prev,    \* instance -> o in the state before the last event
    \* ---- ResetSynchronizer and the domain it resets
    rs_arst,       \* the asynchronous reset input
    rs_flops,      \* stage registers of the internal AsyncFFSynchronizer
    rs_rst,        \* ResetSignal(domain)
    rs_cnt,        \* edges of the domain's clock since rs_arst last changed (capped)
    rs_rst_prev,   \* rs_rst in the state before the last event
    \* ---- FFSynchronizer
    ff_reset,      \* self._reset
    ff_reset_less, \* self._reset_less
    ff_i,          \* the input signal
    ff_flops,      \* stage registers stage0..stage{N-1}
    ff_o,          \* the output signal
    ff_rst,        \* ResetSignal(o_domain)
    ff_hist,       \* the inputs sampled at the last edges, newest first (at most stages)
    ff_edges,      \* o_domain edges since power-on (capped at stages + 1)
    ff_since_rst,  \* o_domain edges since the last edge with ff_rst = 1 (capped at stages)
    ff_changed,    \* the input has changed since power-on
    ff_rst_seen,   \* an edge with ff_rst = 1 has occurred since power-on
    \* ---- PulseSynchronizer
    ps_i,          \* the input signal i, driven in i_domain
    ps_itoggle,    \* itoggle
    ps_flops,      \* stage registers of ff_sync
    ps_otoggle,    \* otoggle, the output of ff_sync
    ps_otoggle_prev, \* otoggle_prev
    ps_o,          \* the output signal o
    ps_nin,        \* i_domain cycles with i = 1 so far
    ps_nout,       \* o_domain cycles with o = 1 so far
    ps_gap,        \* i_domain edges since the last one that saw i = 1 (capped)
    ps_run,        \* length of the current run of i_domain cycles with i = 1
    ps_iso,        \* no two input assertions were within stages + 1 cycles
    ps_dsince,     \* an o_domain edge fell strictly after the last toggle
    ps_sep,        \* an o_domain edge fell between any two input assertions
    ps_dany,       \* an o_domain edge fell strictly after the last i_domain edge
    ps_fast,       \* an o_domain edge fell between any two i_domain edges
    ps_drain,      \* o_domain edges strictly after the last toggle (capped)
    ps_seen,       \* ff_sync has sampled the present value of itoggle
    ps_missed,     \* itoggle changed again before ff_sync sampled its value
    ps_close,      \* two input assertions had fewer than stages o_domain edges between
    ps_rstq,       \* a domain was reset while idle and i was not asserted since
    ps_nrst,       \* clock edges with the domain's reset asserted so far
    ps_ph,         \* o_domain edges since the last i_domain edge (fixed clock ratio)
    ps_coin,       \* the i_domain edges coincide with o_domain edges (fixed ratio)
    ps_pend,       \* an input assertion was captured and o has not asserted since
    ps_lat,        \* o_domain edges at or after the capturing i_domain edge (capped)
    \* ---- construction and elaboration of one generator
    bd_gen,        \* the generator: its class, stage-count argument, max_input_delay
    bd_new,        \* what its constructor did: "ok" or the exception raised
    bd_platform,   \* the platform passed to elaborate: the hooks it defines
    bd_pc,         \* "idle", "rejected", "constructed", "returned", "done", "failed"
    bd_err,        \* the exception raised during elaboration, or "none"
    bd_ret,        \* what the generator's elaborate returned
    bd_sub         \* what the elaborate of the generator it handed on returned

affVars == <<aff_i, aff_flops, aff_o, aff_cnt, aff_o_prev>>
rsVars  == <<rs_arst, rs_flops, rs_rst, rs_cnt, rs_rst_prev>>
ffVars  == <<ff_reset, ff_reset_less, ff_i, ff_flops, ff_o, ff_rst,
             ff_hist, ff_edges, ff_since_rst, ff_changed, ff_rst_seen>>
psRegs  == <<ps_i, ps_itoggle, ps_flops, ps_otoggle, ps_otoggle_prev, ps_o>>
psMon   == <<ps_nin, ps_nout, ps_gap, ps_run, ps_iso, ps_dsince, ps_sep,
             ps_dany, ps_fast, ps_drain, ps_seen, ps_missed, ps_close,
             ps_rstq, ps_nrst>>
psLat   == <<ps_ph, ps_coin, ps_pend, ps_lat>>
psVars  == <<psRegs, psMon, psLat>>
bdVars  == <<bd_gen, bd_new, bd_platform, bd_pc, bd_err, bd_ret, bd_sub>>
vars    == <<stages, affVars, rsVars, ffVars, psVars, bdVars>>

(***************************************************************************)
(* Bounds of the model.                                                    *)
(***************************************************************************)
MaxStages == 3

\* the values of the FFSynchronizer input are 0..MaxValue
MaxValue == 2

\* the input of the PulseSynchronizer is asserted on at most MaxPulses cycles
MaxPulses == 3

\* o_domain edges per i_domain cycle where the clock ratio is fixed
ClkRatio == 4

\* at most MaxResets clock edges find the reset of their domain asserted
MaxResets == 2

Bit == {0, 1}

Min(a, b) == IF a < b THEN a ELSE b

Xor(a, b) == (a + b) % 2

(***************************************************************************)
(* _check_stages                                                           *)
(***************************************************************************)
CheckStagesMutOrder(st) ==
    IF st < 2 THEN "ValueError"
    ELSE IF st < 1 THEN "TypeError"
    ELSE "ok"
CheckStages(st) ==
    IF st < 1 THEN "TypeError"
    ELSE IF st < 2 THEN "ValueError"
    ELSE "ok"

\* the stage counts a constructed generator can have
StageCounts == {n \in 0..MaxStages : CheckStages(n) = "ok"}

(***************************************************************************)
(* Register chains                                                         *)
(***************************************************************************)
\* N registers all holding v
Fill(n, v) == [k \in 1..n |-> v]

\* for i, o in zip((d, *flops), flops): o.eq(i)
ShiftMutOffByOne(flops, d) == <<d, d>> \o SubSeq(flops, 2, Len(flops) - 1)
Shift(flops, d) == <<d>> \o SubSeq(flops, 1, Len(flops) - 1)

\* o.eq(flops[-1])
Last(flops) == flops[Len(flops)]

(***************************************************************************)
(* AsyncFFSynchronizer.elaborate, default structure                        *)
(***************************************************************************)
\* the reset value of every stage register: Signal(1, reset=1)
AsyncFFResetValue == 1

\* ResetSignal("async_ff"): i for "pos", ~i for "neg"
AsyncFFRstMutSame(edge, i) == i
AsyncFFRst(edge, i) == IF edge = "pos" THEN i ELSE 1 - i

\* ClockDomain("async_ff", async_reset=True): what the registers hold once the
\* reset signal has the value rst, with no clock edge
AsyncFFOnRstMutSync(flops, rst) == flops
AsyncFFOnRst(flops, rst) ==
    IF rst = 1 THEN Fill(Len(flops), AsyncFFResetValue) ELSE flops

\* an edge of ClockSignal("async_ff") = ClockSignal(domain)
AsyncFFOnClkMutNoChain(flops, rst) ==
    IF rst = 1 THEN Fill(Len(flops), AsyncFFResetValue)
    ELSE Fill(Len(flops), 0)
AsyncFFOnClkMutReversed(flops, rst) ==
    IF rst = 1 THEN Fill(Len(flops), AsyncFFResetValue)
    ELSE SubSeq(flops, 2, Len(flops)) \o <<0>>
AsyncFFOnClk(flops, rst) ==
    IF rst = 1 THEN Fill(Len(flops), AsyncFFResetValue)
    ELSE Shift(flops, 0)

\* the instances: "pos" and "neg" are driven by aff_i, "inv" is a "pos"
\* instance driven by ~aff_i
Inst == {"pos", "neg", "inv"}
EdgeOf(n) == IF n = "neg" THEN "neg" ELSE "pos"
InOf(n, src) == IF n = "inv" THEN 1 - src ELSE src

InitAff ==
    /\ aff_i \in Bit
    /\ aff_flops = [n \in Inst |-> Fill(stages, AsyncFFResetValue)]
    /\ aff_o = [n \in Inst |-> Last(aff_flops[n])]
    /\ aff_cnt = 0
    /\ aff_o_prev = aff_o

\* the source signal changes
AffSrc ==
    /\ aff_i' = 1 - aff_i
    /\ aff_flops' = [n \in Inst |->
           AsyncFFOnRst(aff_flops[n], AsyncFFRst(EdgeOf(n), InOf(n, aff_i')))]
    /\ aff_o' = [n \in Inst |-> Last(aff_flops'[n])]
    /\ aff_cnt' = 0
    /\ aff_o_prev' = aff_o
    /\ UNCHANGED <<stages, rsVars, ffVars, psVars, bdVars>>

\* an edge of the destination clock
AffClk ==
    /\ aff_flops' = [n \in Inst |->
           AsyncFFOnClk(aff_flops[n], AsyncFFRst(EdgeOf(n), InOf(n, aff_i)))]
    /\ aff_o' = [n \in Inst |-> Last(aff_flops'[n])]
    /\ aff_cnt' = Min(aff_cnt + 1, stages)
    /\ aff_o_prev' = aff_o
    /\ UNCHANGED <<stages, aff_i, rsVars, ffVars, psVars, bdVars>>

(***************************************************************************)
(* ResetSynchronizer.elaborate                                             *)
(***************************************************************************)
\* AsyncFFSynchronizer(self.arst, ResetSignal(domain), ...): async_edge is
\* left at its default
ResetSyncEdgeMutNeg == "neg"
ResetSyncEdge == "pos"

InitRs ==
    /\ rs_arst \in Bit
    /\ rs_flops = Fill(stages, AsyncFFResetValue)
    /\ rs_rst = Last(rs_flops)
    /\ rs_cnt = 0
    /\ rs_rst_prev = rs_rst

\* arst changes
RsSrc ==
    /\ rs_arst' = 1 - rs_arst
    /\ rs_flops' = AsyncFFOnRst(rs_flops, AsyncFFRst(ResetSyncEdge, rs_arst'))
    /\ rs_rst' = Last(rs_flops')
    /\ rs_cnt' = 0
    /\ rs_rst_prev' = rs_rst
    /\ UNCHANGED <<stages, affVars, ffVars, psVars, bdVars>>

\* an edge of the clock of the domain being reset
RsClk ==
    /\ rs_flops' = AsyncFFOnClk(rs_flops, AsyncFFRst(ResetSyncEdge, rs_arst))
    /\ rs_rst' = Last(rs_flops')
    /\ rs_cnt' = Min(rs_cnt + 1, stages)
    /\ rs_rst_prev' = rs_rst
    /\ UNCHANGED <<stages, rs_arst, affVars, ffVars, psVars, bdVars>>

(***************************************************************************)
(* FFSynchronizer.elaborate, default structure                             *)
(***************************************************************************)
Values == 0..MaxValue

\* flops = [Signal(shape, reset=self._reset, ...) for index in range(stages)]
FFInitFlopsMutZero(n, reset) == Fill(n, 0)
FFInitFlops(n, reset) == Fill(n, reset)

\* an edge of the o_domain clock: a register that is not reset_less takes its
\* reset value when the domain's reset is asserted, otherwise o.eq(i)
FFOnClkMutAlwaysReset(flops, i, rst, reset, reset_less) ==
    IF rst = 1 THEN Fill(Len(flops), reset) ELSE Shift(flops, i)
FFOnClk(flops, i, rst, reset, reset_less) ==
    IF rst = 1 /\ ~reset_less THEN Fill(Len(flops), reset) ELSE Shift(flops, i)

InitFF ==
    /\ ff_reset \in Values
    /\ ff_reset_less \in BOOLEAN
    /\ ff_i \in Values
    /\ ff_flops = FFInitFlops(stages, ff_reset)
    /\ ff_o = Last(ff_flops)
    /\ ff_rst \in Bit
    /\ ff_hist = << >>
    /\ ff_edges = 0
    /\ ff_since_rst = stages
    /\ ff_changed = FALSE
    /\ ff_rst_seen = FALSE

\* the input signal changes
FFSetI ==
    /\ \E v \in Values \ {ff_i} : ff_i' = v
    /\ ff_changed' = TRUE
    /\ UNCHANGED <<ff_reset, ff_reset_less, ff_flops, ff_o, ff_rst,
                   ff_hist, ff_edges, ff_since_rst, ff_rst_seen>>
    /\ UNCHANGED <<stages, affVars, rsVars, psVars, bdVars>>

\* the reset signal of o_domain changes
FFSetRst ==
    /\ ff_rst' = 1 - ff_rst
    /\ UNCHANGED <<ff_reset, ff_reset_less, ff_i, ff_flops, ff_o,
                   ff_hist, ff_edges, ff_since_rst, ff_changed, ff_rst_seen>>
    /\ UNCHANGED <<stages, affVars, rsVars, psVars, bdVars>>

\* an edge of the o_domain clock
FFClk ==
    /\ ff_flops' = FFOnClk(ff_flops, ff_i, ff_rst, ff_reset, ff_reset_less)
    /\ ff_o' = Last(ff_flops')
    /\ ff_hist' = SubSeq(<<ff_i>> \o ff_hist, 1, Min(Len(ff_hist) + 1, stages))
    /\ ff_edges' = Min(ff_edges + 1, stages + 1)
    /\ ff_since_rst' = IF ff_rst = 1 THEN 0 ELSE Min(ff_since_rst + 1, stages)
    /\ ff_rst_seen' = (ff_rst_seen \/ ff_rst = 1)
    /\ UNCHANGED <<ff_reset, ff_reset_less, ff_i, ff_rst, ff_changed>>
    /\ UNCHANGED <<stages, affVars, rsVars, psVars, bdVars>>

(***************************************************************************)
(* PulseSynchronizer.elaborate                                             *)
(***************************************************************************)
\* def __init__(self, i_domain, o_domain, sync_stages=2)
DefaultSyncStages == 2

\* FFSynchronizer(itoggle, otoggle, o_domain=..., stages=self.sync_stages)
PsSyncStagesMutExtra(sync_stages) == sync_stages + 1
PsSyncStages(sync_stages) == sync_stages

\* ... with reset and reset_less left at their defaults
PsSyncReset == 0
PsSyncResetLess == TRUE

\* itoggle.eq(itoggle ^ self.i)
PsToggleMutLevel(itoggle, i) == i
PsToggle(itoggle, i) == Xor(itoggle, i)

\* self.o.eq(otoggle ^ otoggle_prev)
PsOutMutRising(otoggle, otoggle_prev) == otoggle * (1 - otoggle_prev)
PsOut(otoggle, otoggle_prev) == Xor(otoggle, otoggle_prev)

\* itoggle = Signal() at an i_domain edge where the domain's reset is rst
PsToggleNextMutLevel(itoggle, i, rst) == i
PsToggleNext(itoggle, i, rst) == IF rst = 1 THEN 0 ELSE PsToggle(itoggle, i)

\* otoggle_prev = Signal(), otoggle_prev.eq(otoggle), at an o_domain edge
\* where the domain's reset is rst
PsPrevNextMutInvert(otoggle, rst) == 1 - otoggle
PsPrevNext(otoggle, rst) == IF rst = 1 THEN 0 ELSE otoggle

\* no toggle is on its way through ff_sync and otoggle_prev
PsQuiescent ==
    /\ \A k \in 1..Len(ps_flops) : ps_flops[k] = ps_itoggle
    /\ ps_otoggle = ps_itoggle
    /\ ps_otoggle_prev = ps_itoggle

InitPs ==
    /\ ps_i = 0
    /\ ps_itoggle = 0
    /\ ps_flops = FFInitFlops(PsSyncStages(stages), PsSyncReset)
    /\ ps_otoggle = Last(ps_flops)
    /\ ps_otoggle_prev = 0
    /\ ps_o = PsOut(ps_otoggle, ps_otoggle_prev)
    /\ ps_nin = 0
    /\ ps_nout = 0
    /\ ps_gap = 0
    /\ ps_run = 0
    /\ ps_iso = TRUE
    /\ ps_dsince = FALSE
    /\ ps_sep = TRUE
    /\ ps_dany = TRUE
    /\ ps_fast = TRUE
    /\ ps_drain = 0
    /\ ps_seen = TRUE
    /\ ps_missed = FALSE
    /\ ps_close = FALSE
    /\ ps_rstq = FALSE
    /\ ps_nrst = 0
    /\ ps_pend = FALSE
    /\ ps_lat = 0

\* the values the test bench may drive on i for the next i_domain cycle
NextInputs(nin) == IF nin < MaxPulses THEN Bit ELSE {0}

\* the i_domain half of an edge: itoggle takes itoggle ^ i, then i is driven
\* to nxt for the next cycle
PsSrcPart(nxt) ==
    /\ ps_itoggle' = PsToggleNext(ps_itoggle, ps_i, 0)
    /\ ps_nin' = ps_nin + ps_i
    /\ nxt \in NextInputs(ps_nin')
    /\ ps_i' = nxt
    /\ ps_gap' = IF ps_i = 1 THEN 0 ELSE Min(ps_gap + 1, stages + 1)
    /\ ps_run' = IF ps_i = 1 THEN ps_run + 1 ELSE 0
    /\ ps_iso' = (ps_iso /\ (ps_i = 1 => (ps_nin = 0 \/ ps_gap >= stages + 1)))
    /\ ps_sep' = (ps_sep /\ (ps_i = 1 => (ps_nin = 0 \/ ps_dsince)))
    /\ ps_fast' = (ps_fast /\ ps_dany)
    /\ ps_close' = (ps_close \/ (ps_i = 1 /\ ps_nin > 0 /\ ps_drain < stages))
    /\ ps_rstq' = (ps_rstq /\ nxt = 0)
    /\ UNCHANGED ps_nrst

\* the o_domain half of an edge at which ff_sync samples the value samp
PsDstPart(samp) ==
    /\ ps_flops' = FFOnClk(ps_flops, samp, 0, PsSyncReset, PsSyncResetLess)
    /\ ps_otoggle' = Last(ps_flops')
    /\ ps_otoggle_prev' = PsPrevNext(ps_otoggle, 0)
    /\ ps_o' = PsOut(ps_otoggle', ps_otoggle_prev')
    /\ ps_nout' = ps_nout + ps_o'

\* an edge of the i_domain clock alone
PsSrcEdge(nxt) ==
    /\ PsSrcPart(nxt)
    /\ ps_dsince' = IF ps_i = 1 THEN FALSE ELSE ps_dsince
    /\ ps_dany' = FALSE
    /\ ps_drain' = IF ps_i = 1 THEN 0 ELSE ps_drain
    /\ ps_seen' = IF ps_i = 1 THEN FALSE ELSE ps_seen
    /\ ps_missed' = (ps_missed \/ (ps_i = 1 /\ ~ps_seen))
    /\ UNCHANGED <<ps_flops, ps_otoggle, ps_otoggle_prev, ps_o, ps_nout>>
    /\ UNCHANGED <<stages, affVars, rsVars, ffVars, bdVars>>

\* an edge of the o_domain clock alone
PsDstEdge ==
    /\ PsDstPart(ps_itoggle)
    /\ ps_dsince' = TRUE
    /\ ps_dany' = TRUE
    /\ ps_drain' = Min(ps_drain + 1, stages + 1)
    /\ ps_seen' = TRUE
    /\ UNCHANGED <<ps_i, ps_itoggle, ps_nin, ps_gap, ps_run, ps_iso, ps_sep, ps_fast>>
    /\ UNCHANGED <<ps_missed, ps_close, ps_rstq, ps_nrst>>
    /\ UNCHANGED <<stages, affVars, rsVars, ffVars, bdVars>>

\* coinciding edges of both clocks: ff_sync samples itoggle while it changes,
\* and captures the old or the new value
PsBothEdge(nxt, samp) ==
    /\ samp \in {ps_itoggle, PsToggle(ps_itoggle, ps_i)}
    /\ PsSrcPart(nxt)
    /\ PsDstPart(samp)
    /\ ps_dsince' = (ps_i = 0)
    /\ ps_dany' = FALSE
    /\ ps_drain' = IF ps_i = 1 THEN 0 ELSE Min(ps_drain + 1, stages + 1)
    /\ ps_seen' = (samp = ps_itoggle')
    /\ ps_missed' = (ps_missed \/ (ps_i = 1 /\ ~ps_seen /\ samp # ps_itoggle))
    /\ UNCHANGED <<stages, affVars, rsVars, ffVars, bdVars>>

\* an i_domain edge that finds the reset of i_domain asserted: itoggle takes
\* its reset value whatever i is.  The monitors of pulse spacing describe runs
\* without resets and are left as they are.
PsSrcRstEdge(nxt) ==
    /\ ps_nrst < MaxResets
    /\ ps_nrst' = ps_nrst + 1
    /\ ps_itoggle' = PsToggleNext(ps_itoggle, ps_i, 1)
    /\ ps_nin' = ps_nin + ps_i
    /\ nxt \in NextInputs(ps_nin')
    /\ ps_i' = nxt
    /\ ps_rstq' = ((ps_rstq \/ (PsQuiescent /\ ps_i = 0)) /\ nxt = 0)
    /\ UNCHANGED <<ps_flops, ps_otoggle, ps_otoggle_prev, ps_o, ps_nout>>
    /\ UNCHANGED <<ps_gap, ps_run, ps_iso, ps_dsince, ps_sep, ps_dany, ps_fast,
                   ps_drain, ps_seen, ps_missed, ps_close>>
    /\ UNCHANGED <<stages, affVars, rsVars, ffVars, bdVars>>

\* an o_domain edge that finds the reset of o_domain asserted: otoggle_prev
\* takes its reset value, the stages of ff_sync follow their reset_less
PsDstRstEdge ==
    /\ ps_nrst < MaxResets
    /\ ps_nrst' = ps_nrst + 1
    /\ ps_flops' = FFOnClk(ps_flops, ps_itoggle, 1, PsSyncReset, PsSyncResetLess)
    /\ ps_otoggle' = Last(ps_flops')
    /\ ps_otoggle_prev' = PsPrevNext(ps_otoggle, 1)
    /\ ps_o' = PsOut(ps_otoggle', ps_otoggle_prev')
    /\ ps_nout' = ps_nout + ps_o'
    /\ ps_rstq' = (ps_rstq \/ (PsQuiescent /\ ps_i = 0))
    /\ UNCHANGED <<ps_i, ps_itoggle, ps_nin>>
    /\ UNCHANGED <<ps_gap, ps_run, ps_iso, ps_dsince, ps_sep, ps_dany, ps_fast,
                   ps_drain, ps_seen, ps_missed, ps_close>>
    /\ UNCHANGED <<stages, affVars, rsVars, ffVars, bdVars>>

IdlePs ==
    /\ InitPs
    /\ ps_ph = 0
    /\ ps_coin = FALSE

(***************************************************************************)
(* Construction and elaboration of the generators                          *)
(***************************************************************************)
\* a Python value given as a stage count: its type and its numeric value
\* (bool is a subclass of int: False is 0 and True is 1)
PyInt(n) == [t |-> "int", v |-> n]

StageArgs ==
    {PyInt(n) : n \in (0 - 1)..MaxStages}
        \cup {[t |-> "bool", v |-> b] : b \in Bit}
        \cup {[t |-> "float", v |-> n] : n \in 1..MaxStages}
        \cup {[t |-> "str", v |-> DefaultSyncStages], [t |-> "NoneType", v |-> 0]}

\* isinstance(stages, int)
IsInstanceInt(x) == x.t \in {"int", "bool"}

\* _check_stages(stages) for any Python value
CheckStagesArg(x) ==
    IF ~IsInstanceInt(x) THEN "TypeError" ELSE CheckStages(x.v)

\* the check of sync_stages in PulseSynchronizer.__init__
PulseCheckStages(x) ==
    IF ~IsInstanceInt(x) \/ x.v < 1 THEN "TypeError" ELSE "ok"

Classes ==
    {"FFSynchronizer", "AsyncFFSynchronizer", "ResetSynchronizer", "PulseSynchronizer"}

\* __init__ of each class with valid arguments other than the stage count:
\* "ok" or the exception raised
New(cls, x) ==
    IF cls = "PulseSynchronizer" THEN PulseCheckStages(x) ELSE CheckStagesArg(x)

\* max_input_delay: None or a number of seconds
MaxInputDelays == {"None", "set"}

\* the max_input_delay values the constructor of a class can be given
DelaysOf(cls) == IF cls = "PulseSynchronizer" THEN {"None"} ELSE MaxInputDelays

Gen(cls, x, mid) == [cls |-> cls, stages |-> x, mid |-> mid]

NoGen == Gen("none", PyInt(0), "None")

\* the platform methods the docstrings name; a platform is the set it defines
Hooks == {"get_ff_sync", "get_async_ff_sync", "get_reset_sync"}

Platforms == SUBSET Hooks

\* what an elaborate method does: return the result of a platform hook called
\* with the generator, raise, return a Module (with the generator it added as
\* a submodule, if any), or return another generator
Hooked(h, g) == [kind |-> "hook", hook |-> h, err |-> "none", obj |-> g]
Raised(e) == [kind |-> "raise", hook |-> "none", err |-> e, obj |-> NoGen]
Module(sub) == [kind |-> "module", hook |-> "none", err |-> "none", obj |-> sub]
Object(g) == [kind |-> "object", hook |-> "none", err |-> "none", obj |-> g]
NoRet == [kind |-> "none", hook |-> "none", err |-> "none", obj |-> NoGen]

\* FFSynchronizer.elaborate
ElabFFMutDelayFirst(g, p) ==
    IF g.mid # "None" THEN Raised("NotImplementedError")
    ELSE IF "get_ff_sync" \in p THEN Hooked("get_ff_sync", g)
    ELSE Module(NoGen)
ElabFF(g, p) ==
    IF "get_ff_sync" \in p THEN Hooked("get_ff_sync", g)
    ELSE IF g.mid # "None" THEN Raised("NotImplementedError")
    ELSE Module(NoGen)

\* AsyncFFSynchronizer.elaborate
ElabAsyncFFMutIgnoreDelay(g, p) ==
    IF "get_async_ff_sync" \in p THEN Hooked("get_async_ff_sync", g)
    ELSE Module(NoGen)
ElabAsyncFF(g, p) ==
    IF "get_async_ff_sync" \in p THEN Hooked("get_async_ff_sync", g)
    ELSE IF g.mid # "None" THEN Raised("NotImplementedError")
    ELSE Module(NoGen)

\* ResetSynchronizer.elaborate: return AsyncFFSynchronizer(..., stages=
\* self._stages, max_input_delay=self._max_input_delay)
ElabResetSync(g, p) ==
    IF New("AsyncFFSynchronizer", g.stages) # "ok"
    THEN Raised(New("AsyncFFSynchronizer", g.stages))
    ELSE Object(Gen("AsyncFFSynchronizer", g.stages, g.mid))

\* PulseSynchronizer.elaborate: m.submodules.ff_sync = FFSynchronizer(...,
\* stages=self.sync_stages)
ElabPulse(g, p) ==
    IF New("FFSynchronizer", g.stages) # "ok"
    THEN Raised(New("FFSynchronizer", g.stages))
    ELSE Module(Gen("FFSynchronizer", g.stages, "None"))

Elaborate(g, p) ==
    CASE g.cls = "FFSynchronizer" -> ElabFF(g, p)
      [] g.cls = "AsyncFFSynchronizer" -> ElabAsyncFF(g, p)
      [] g.cls = "ResetSynchronizer" -> ElabResetSync(g, p)
      [] g.cls = "PulseSynchronizer" -> ElabPulse(g, p)

IdleBd ==
    /\ bd_gen = NoGen
    /\ bd_new = "none"
    /\ bd_platform = {}
    /\ bd_pc = "idle"
    /\ bd_err = "none"
    /\ bd_ret = NoRet
    /\ bd_sub = NoRet

\* a generator is constructed
BdConstruct ==
    /\ bd_pc = "idle"
    /\ \E cls \in Classes, x \in StageArgs :
         \E mid \in DelaysOf(cls) :
            /\ bd_gen' = Gen(cls, x, mid)
            /\ bd_new' = New(cls, x)
    /\ bd_pc' = IF bd_new' = "ok" THEN "constructed" ELSE "rejected"
    /\ UNCHANGED <<bd_platform, bd_err, bd_ret, bd_sub>>
    /\ UNCHANGED <<stages, affVars, rsVars, ffVars, psVars>>

\* elaborate(platform) is called on the constructed generator
BdElaborate ==
    /\ bd_pc = "constructed"
    /\ \E p \in Platforms : bd_platform' = p
    /\ bd_ret' = Elaborate(bd_gen, bd_platform')
    /\ bd_err' = bd_ret'.err
    /\ bd_pc' = IF bd_ret'.kind = "raise" THEN "failed"
                ELSE IF bd_ret'.obj # NoGen /\ bd_ret'.kind # "hook" THEN "returned"
                ELSE "done"
    /\ UNCHANGED <<bd_gen, bd_new, bd_sub>>
    /\ UNCHANGED <<stages, affVars, rsVars, ffVars, psVars>>

\* the caller elaborates, with the same platform, the generator that was
\* returned or added as a submodule
BdElaborateSub ==
    /\ bd_pc = "returned"
    /\ bd_sub' = Elaborate(bd_ret.obj, bd_platform)
    /\ bd_err' = bd_sub'.err
    /\ bd_pc' = IF bd_sub'.kind = "raise" THEN "failed" ELSE "done"
    /\ UNCHANGED <<bd_gen, bd_new, bd_platform, bd_ret>>
    /\ UNCHANGED <<stages, affVars, rsVars, ffVars, psVars>>

\* the synchronizers not taking part in a specification stay as built
IdleAff ==
    /\ aff_i = 0
    /\ aff_flops = [n \in Inst |-> Fill(stages, AsyncFFResetValue)]
    /\ aff_o = [n \in Inst |-> Last(aff_flops[n])]
    /\ aff_cnt = 0
    /\ aff_o_prev = aff_o

IdleRs ==
    /\ rs_arst = 0
    /\ rs_flops = Fill(stages, AsyncFFResetValue)
    /\ rs_rst = Last(rs_flops)
    /\ rs_cnt = 0
    /\ rs_rst_prev = rs_rst

IdleFF ==
    /\ ff_reset = 0
    /\ ff_reset_less = TRUE
    /\ ff_i = 0
    /\ ff_flops = FFInitFlops(stages, ff_reset)
    /\ ff_o = Last(ff_flops)
    /\ ff_rst = 0
    /\ ff_hist = << >>
    /\ ff_edges = 0
    /\ ff_since_rst = stages
    /\ ff_changed = FALSE
    /\ ff_rst_seen = FALSE

(***************************************************************************)
(* Specification of the asynchronous-assert synchronizers                  *)
(***************************************************************************)
InitAsync ==
    /\ stages \in StageCounts
    /\ InitAff
    /\ InitRs
    /\ IdleFF
    /\ IdlePs
    /\ IdleBd

NextAsync ==
    \/ AffSrc
    \/ AffClk
    \/ RsSrc
    \/ RsClk

SpecAsync == InitAsync /\ [][NextAsync]_vars

(***************************************************************************)
(* Specification of FFSynchronizer                                         *)
(***************************************************************************)
InitFFSync ==
    /\ stages \in StageCounts
    /\ InitFF
    /\ IdleAff
    /\ IdleRs
    /\ IdlePs
    /\ IdleBd

NextFFSync ==
    \/ FFSetI
    \/ FFSetRst
    \/ FFClk

SpecFF == InitFFSync /\ [][NextFFSync]_vars

(***************************************************************************)
(* Specification of PulseSynchronizer, unrelated clocks                    *)
(***************************************************************************)
InitPulse ==
    /\ stages \in StageCounts
    /\ InitPs
    /\ ps_ph = 0
    /\ ps_coin = FALSE
    /\ IdleAff
    /\ IdleRs
    /\ IdleFF
    /\ IdleBd

PulseSrc == \E nxt \in Bit : PsSrcEdge(nxt) /\ UNCHANGED psLat

PulseDst == PsDstEdge /\ UNCHANGED psLat

PulseBoth == \E nxt \in Bit, samp \in Bit : PsBothEdge(nxt, samp) /\ UNCHANGED psLat

NextPulse ==
    \/ PulseSrc
    \/ PulseDst
    \/ PulseBoth

SpecPulse == InitPulse /\ [][NextPulse]_vars

(***************************************************************************)
(* Specification of PulseSynchronizer, unrelated clocks, with runtime      *)
(* resets of i_domain and of o_domain                                      *)
(***************************************************************************)
InitPulseReset ==
    /\ stages \in StageCounts
    /\ InitPs
    /\ ps_ph = 0
    /\ ps_coin = FALSE
    /\ IdleAff
    /\ IdleRs
    /\ IdleFF
    /\ IdleBd

PulseSrcRst == \E nxt \in Bit : PsSrcRstEdge(nxt) /\ UNCHANGED psLat

PulseDstRst == PsDstRstEdge /\ UNCHANGED psLat

NextPulseReset ==
    \/ PulseSrc
    \/ PulseDst
    \/ PulseBoth
    \/ PulseSrcRst
    \/ PulseDstRst

SpecPulseReset == InitPulseReset /\ [][NextPulseReset]_vars

(***************************************************************************)
(* Specification of PulseSynchronizer, ClkRatio o_domain edges per         *)
(* i_domain cycle, at any phase                                            *)
(***************************************************************************)
InitPulseRatio ==
    /\ stages \in StageCounts
    /\ InitPs
    /\ ps_coin \in BOOLEAN
    /\ ps_ph \in 0..(IF ps_coin THEN ClkRatio - 1 ELSE ClkRatio)
    /\ IdleAff
    /\ IdleRs
    /\ IdleFF
    /\ IdleBd

\* an i_domain edge strictly between two o_domain edges
RatioSrc ==
    /\ ~ps_coin
    /\ ps_ph = ClkRatio
    /\ \E nxt \in Bit : PsSrcEdge(nxt)
    /\ ps_ph' = 0
    /\ ps_pend' = (ps_pend \/ ps_i = 1)
    /\ ps_lat' = IF ps_i = 1 THEN 0 ELSE ps_lat
    /\ UNCHANGED ps_coin

\* an o_domain edge away from the i_domain edges
RatioDst ==
    /\ ps_ph < (IF ps_coin THEN ClkRatio - 1 ELSE ClkRatio)
    /\ PsDstEdge
    /\ ps_ph' = ps_ph + 1
    /\ ps_pend' = (ps_pend /\ ps_o' = 0)
    /\ ps_lat' = IF ps_pend THEN Min(ps_lat + 1, stages + 2) ELSE ps_lat
    /\ UNCHANGED ps_coin

\* an i_domain edge that coincides with every ClkRatio-th o_domain edge
RatioBoth ==
    /\ ps_coin
    /\ ps_ph = ClkRatio - 1
    /\ \E nxt \in Bit, samp \in Bit : PsBothEdge(nxt, samp)
    /\ ps_ph' = 0
    /\ ps_pend' = IF ps_i = 1 THEN TRUE ELSE (ps_pend /\ ps_o' = 0)
    /\ ps_lat' = IF ps_i = 1 THEN 1
                  ELSE IF ps_pend THEN Min(ps_lat + 1, stages + 2) ELSE ps_lat
    /\ UNCHANGED ps_coin

NextPulseRatio ==
    \/ RatioSrc
    \/ RatioDst
    \/ RatioBoth

SpecPulseRatio == InitPulseRatio /\ [][NextPulseRatio]_vars

(***************************************************************************)
(* Specification of construction and elaboration                           *)
(***************************************************************************)
InitBuild ==
    /\ stages = DefaultSyncStages
    /\ IdleBd
    /\ IdleAff
    /\ IdleRs
    /\ IdleFF
    /\ IdlePs

NextBuild ==
    \/ BdConstruct
    \/ BdElaborate
    \/ BdElaborateSub

SpecBuild == InitBuild /\ [][NextBuild]_vars

(***************************************************************************)
(* Properties of AsyncFFSynchronizer and ResetSynchronizer                 *)
(***************************************************************************)
\* C1: with async_edge="pos", in every state in which the source signal i is
\* 1, every stage register and the output o are 1, whether or not a
\* destination-clock edge has occurred since i rose.
C1_AssertedWhileSourceHigh ==
    aff_i = 1 =>
        /\ \A k \in 1..stages : aff_flops["pos"][k] = 1
        /\ aff_o["pos"] = 1

\* the source has just risen while the output was 0, and no clock edge has
\* occurred since
C1_Witness ==
    /\ aff_i = 1
    /\ aff_cnt = 0
    /\ aff_o_prev["pos"] = 0
    /\ aff_o["pos"] = 1

\* C2: with async_edge="pos" and N = stages, the output is 0 exactly when the
\* source has been 0 across the last N destination-clock edges: it stays 1
\* while fewer than N edges have occurred since the source last changed, falls
\* at the N-th edge, and a re-assertion of the source restarts the count.
C2_DeassertAfterNEdges ==
    aff_o["pos"] = 0 <=> (aff_i = 0 /\ aff_cnt = stages)

\* the output has just fallen, at the N-th edge, for the longest chain
C2_Witness ==
    /\ stages = MaxStages
    /\ aff_i = 0
    /\ aff_cnt = stages
    /\ aff_o_prev["pos"] = 1
    /\ aff_o["pos"] = 0

\* C3: the "neg" instance driven by i has the same stage registers and output
\* as a "pos" instance driven by NOT i, in every state; its output is 1 whenever
\* i is 0 and is 0 only once i has been 1 across N destination-clock edges.
C3_NegIsPosOfInverted ==
    /\ aff_flops["neg"] = aff_flops["inv"]
    /\ aff_o["neg"] = aff_o["inv"]
    /\ aff_i = 0 => aff_o["neg"] = 1
    /\ aff_o["neg"] = 0 <=> (aff_i = 1 /\ aff_cnt = stages)

\* the "neg" instance has released its output while the source is 1
C3_Witness ==
    /\ aff_i = 1
    /\ aff_o_prev["neg"] = 1
    /\ aff_o["neg"] = 0
    /\ aff_o["inv"] = 0

\* C4: the reset signal of the domain equals the last stage of the internal
\* AsyncFFSynchronizer in every state, is 1 whenever arst is 1, and is 0 only
\* once arst has been 0 across N edges of the domain's clock.
C4_DomainResetFollows ==
    /\ rs_rst = Last(rs_flops)
    /\ rs_arst = 1 => rs_rst = 1
    /\ rs_rst = 0 => (rs_arst = 0 /\ rs_cnt = stages)

\* arst has just risen while the domain's reset was 0, with no clock edge since
C4_Witness ==
    /\ rs_arst = 1
    /\ rs_cnt = 0
    /\ rs_rst_prev = 0
    /\ rs_rst = 1

\* C20: in every state of every instance, the stage registers are 0s followed
\* by 1s (a stage at 0 has only 0s before it), the output is 0 only when every
\* stage is 0, and the output has risen only if the source is asserted.
C20_ChainIsZerosThenOnes ==
    \A n \in Inst :
        /\ \A k \in 1..stages : \A j \in 1..k :
               aff_flops[n][k] = 0 => aff_flops[n][j] = 0
        /\ aff_o[n] = 0 => \A k \in 1..stages : aff_flops[n][k] = 0
        /\ (aff_o_prev[n] = 0 /\ aff_o[n] = 1) =>
               AsyncFFRst(EdgeOf(n), InOf(n, aff_i)) = 1

\* the longest chain part of the way through a deassertion: 0 in the first
\* stage, 1 in the last, the output still 1
C20_Witness ==
    /\ stages = MaxStages
    /\ aff_i = 0
    /\ aff_flops["pos"][1] = 0
    /\ aff_flops["pos"][stages] = 1
    /\ aff_o["pos"] = 1

(***************************************************************************)
(* Properties of FFSynchronizer                                            *)
(***************************************************************************)
\* C5: once N = stages edges of the destination clock have occurred (and, for
\* a chain that is not reset_less, none of the last N edges was a reset edge),
\* the output equals the input value sampled N edges ago, for every input
\* sequence: the delay is exactly N edges.
C5_OutputIsInputNEdgesAgo ==
    (Len(ff_hist) = stages /\ (ff_reset_less \/ ff_since_rst = stages)) =>
        ff_o = ff_hist[stages]

\* the longest default chain shows a value that differs from the reset value,
\* from the value sampled one edge later and from the present input
C5_Witness ==
    /\ stages = MaxStages
    /\ ff_reset_less
    /\ Len(ff_hist) = stages
    /\ ff_o = ff_hist[stages]
    /\ ff_hist[stages] # ff_hist[stages - 1]
    /\ ff_hist[stages] # ff_reset
    /\ ff_hist[stages] # ff_i

\* C6: with reset_less=False, after an edge at which the destination domain's
\* reset was asserted every stage and the output hold the reset value; with
\* reset_less=True the stages are what the sampled inputs alone make them
\* (reset edges have no effect), and hold the reset value only where no input
\* has been shifted in since power-on.
C6_ResetBehaviour ==
    /\ (~ff_reset_less /\ ff_since_rst = 0) =>
           /\ ff_flops = Fill(stages, ff_reset)
           /\ ff_o = ff_reset
    /\ ff_reset_less =>
           \A k \in 1..stages :
               ff_flops[k] = IF k <= Len(ff_hist) THEN ff_hist[k] ELSE ff_reset

\* a reset_less chain right after a reset edge, holding a value that is not
\* the reset value
C6_Witness ==
    /\ ff_reset_less
    /\ ff_since_rst = 0
    /\ ff_rst = 1
    /\ Len(ff_hist) = stages
    /\ \A k \in 1..stages : ff_flops[k] # ff_reset

\* C7: from power-on, with the input held and no reset edge, the output read
\* at each of the first N = stages destination-clock edges (before the edge
\* takes effect) is the reset value, and from the N-th edge on it is the held
\* input; in particular for stages=3, reset_less=False, reset=1, input 0.
C7_ResetValueThenHeldInput ==
    (~ff_changed /\ ~ff_rst_seen) =>
        ff_o = IF ff_edges < stages THEN ff_reset ELSE ff_i

\* FFSynchronizer(stages=3, reset_less=False, reset=1), input held at 0, once
\* the third edge has taken effect
C7_Witness ==
    /\ stages = 3
    /\ ~ff_reset_less
    /\ ff_reset = 1
    /\ ff_i = 0
    /\ ~ff_changed
    /\ ~ff_rst_seen
    /\ ff_edges = stages
    /\ ff_o = 0

(***************************************************************************)
(* Properties of PulseSynchronizer                                         *)
(***************************************************************************)
\* every o_domain edge that a toggle of itoggle can still affect has occurred
Drained == ps_drain = stages + 1

\* C8 (as stated): under any interleaving of the two clocks, if no two input
\* assertions are within stages + 1 i_domain cycles of each other then, once
\* the chain has drained, there is exactly one o_domain cycle with o = 1 for
\* every i_domain cycle with i = 1.
C8_IsolatedPulseOriginal ==
    (ps_iso /\ Drained) => ps_nout = ps_nin

\* C8 (amended): the same, provided at least one o_domain edge falls strictly
\* between any two input assertions.
C8_IsolatedPulse ==
    (ps_iso /\ ps_sep /\ Drained) => ps_nout = ps_nin

\* isolated input assertions, each seen by the destination before the next,
\* with a destination clock that is not the faster one, all delivered
C8_Witness ==
    /\ ps_iso
    /\ ps_sep
    /\ ~ps_fast
    /\ Drained
    /\ ps_nin = MaxPulses
    /\ ps_nout = ps_nin

\* C9: with ClkRatio o_domain edges per i_domain cycle, at any phase, the
\* output asserts within stages + 1 o_domain edges of the i_domain edge that
\* captured an input assertion, and for exactly one o_domain cycle per
\* captured assertion.
C9_Latency ==
    /\ ps_pend => ps_lat <= stages
    /\ ps_nout = ps_nin - (IF ps_pend THEN 1 ELSE 0)

\* sync_stages=2, one input assertion, the capturing edge coinciding with an
\* o_domain edge: the output asserts at the third o_domain edge
C9_Witness ==
    /\ stages = DefaultSyncStages
    /\ ps_coin
    /\ ps_nin = 1
    /\ ps_i = 0
    /\ ~ps_pend
    /\ ps_lat = stages + 1
    /\ ps_o = 1
    /\ ps_nout = 1

\* C10: if at least one o_domain edge falls strictly between any two
\* consecutive i_domain edges, then once the chain has drained the number of
\* o_domain cycles with o = 1 equals the number of i_domain cycles with i = 1,
\* whatever cycles the input was asserted on.
C10_NoPulseLostWhenFaster ==
    (ps_fast /\ Drained) => ps_nout = ps_nin

\* the input asserted on MaxPulses consecutive i_domain cycles, all delivered
C10_Witness ==
    /\ ps_fast
    /\ Drained
    /\ ps_run = MaxPulses
    /\ ps_nin = MaxPulses
    /\ ps_nout = ps_nin

\* C17 (as stated): if two input assertions had fewer than stages o_domain
\* edges between them then, once the chain has drained, there are fewer
\* o_domain cycles with o = 1 than i_domain cycles with i = 1.
C17_CapacityLimitOriginal ==
    (ps_close /\ Drained) => ps_nout < ps_nin

\* C17 (amended): if itoggle was toggled twice with no o_domain edge between
\* at which ff_sync sampled the value in between then, once the chain has
\* drained, there are fewer o_domain cycles with o = 1 than i_domain cycles
\* with i = 1.
C17_CapacityLimit ==
    (ps_missed /\ Drained) => ps_nout < ps_nin

\* two input assertions, the toggle of the first never sampled, and no
\* output assertion at all after the chain has drained
C17_Witness ==
    /\ ps_missed
    /\ Drained
    /\ ps_i = 0
    /\ ps_nin = 2
    /\ ps_nout = 0

\* C18: without domain resets, under every interleaving of the two clocks,
\* the o_domain cycles with o = 1 never outnumber the i_domain cycles with
\* i = 1, and once the chain has drained the difference is even.
C18_LossBoundedAndEven ==
    /\ ps_nout <= ps_nin
    /\ Drained => (ps_nin - ps_nout) % 2 = 0

\* three input assertions of which exactly two were lost
C18_Witness ==
    /\ Drained
    /\ ps_i = 0
    /\ ps_nin = MaxPulses
    /\ ps_nin - ps_nout = 2

\* C19: a reset of i_domain or of o_domain applied while i = 0 and no toggle
\* is in flight, with i not asserted since, is never followed by o = 1.
C19_ResetGivesNoOutput ==
    ps_rstq => ps_o = 0

(***************************************************************************)
(* Properties of construction and elaboration                              *)
(***************************************************************************)
\* elaboration has run to its end
Elaborated == bd_pc \in {"done", "failed"}

\* C11: for each of the four generators, construction raises TypeError or
\* ValueError for every stage count that is not an integer or is less than 2,
\* and succeeds for every integer stage count >= 2.
C11_ConstructionChecksStages ==
    bd_pc # "idle" =>
        IF bd_gen.stages.t = "int" /\ bd_gen.stages.v >= 2
        THEN bd_new = "ok"
        ELSE bd_new \in {"TypeError", "ValueError"}

\* C12: once construction has succeeded, elaboration (with the construction
\* of sub-generators it performs) raises neither TypeError nor ValueError.
C12_NoStageErrorAfterConstruction ==
    bd_pc = "failed" => bd_err \notin {"TypeError", "ValueError"}

\* C13: _check_stages, as called by the constructors of FFSynchronizer,
\* AsyncFFSynchronizer and ResetSynchronizer, raises TypeError for a value
\* that is not an integer or is an integer < 1, ValueError for the integer 1,
\* and accepts every integer >= 2; only a positive integer yields ValueError.
C13_CheckStagesClassification ==
    (bd_pc # "idle" /\ bd_gen.cls # "PulseSynchronizer") =>
        LET x == bd_gen.stages IN
        /\ bd_new = IF x.t \notin {"int", "bool"} \/ x.v < 1 THEN "TypeError"
                    ELSE IF x.v = 1 THEN "ValueError"
                    ELSE "ok"
        /\ bd_new = "ValueError" => (x.t \in {"int", "bool"} /\ x.v >= 1)

\* a constructor given the integer 1 has raised ValueError
C13_Witness ==
    /\ bd_gen.cls = "AsyncFFSynchronizer"
    /\ bd_gen.stages = PyInt(1)
    /\ bd_pc = "rejected"
    /\ bd_new = "ValueError"

\* the hook an FFSynchronizer or AsyncFFSynchronizer looks up
HookOf(cls) == IF cls = "FFSynchronizer" THEN "get_ff_sync" ELSE "get_async_ff_sync"

\* C14: if the platform defines the hook of an FFSynchronizer or
\* AsyncFFSynchronizer, elaborate returns the hook's result for this generator,
\* builds no Module and raises nothing, whatever max_input_delay is.
C14_PlatformHookOverrides ==
    (/\ Elaborated
     /\ bd_gen.cls \in {"FFSynchronizer", "AsyncFFSynchronizer"}
     /\ HookOf(bd_gen.cls) \in bd_platform) =>
        /\ bd_pc = "done"
        /\ bd_err = "none"
        /\ bd_ret = Hooked(HookOf(bd_gen.cls), bd_gen)
        /\ bd_sub = NoRet

\* an FFSynchronizer with max_input_delay set was elaborated through the hook
C14_Witness ==
    /\ bd_gen.cls = "FFSynchronizer"
    /\ bd_gen.mid = "set"
    /\ "get_ff_sync" \in bd_platform
    /\ bd_pc = "done"
    /\ bd_ret.kind = "hook"

\* the platform defines a hook through which the generator can be overridden
Overridden(cls, p) ==
    CASE cls = "FFSynchronizer" -> "get_ff_sync" \in p
      [] cls = "AsyncFFSynchronizer" -> "get_async_ff_sync" \in p
      [] cls = "ResetSynchronizer" ->
            ("get_reset_sync" \in p \/ "get_async_ff_sync" \in p)
      [] OTHER -> FALSE

\* C15: for FFSynchronizer, AsyncFFSynchronizer and ResetSynchronizer on a
\* platform without an override hook, elaboration with max_input_delay set
\* ends in NotImplementedError and produces no Module, and elaboration with
\* max_input_delay = None ends with the default Module.
C15_UnsupportedDelayFails ==
    (/\ Elaborated
     /\ bd_gen.cls \in {"FFSynchronizer", "AsyncFFSynchronizer", "ResetSynchronizer"}
     /\ ~Overridden(bd_gen.cls, bd_platform)) =>
        IF bd_gen.mid # "None"
        THEN /\ bd_pc = "failed"
             /\ bd_err = "NotImplementedError"
             /\ bd_ret.kind # "module"
             /\ bd_sub.kind # "module"
        ELSE /\ bd_pc = "done"
             /\ bd_err = "none"
             /\ (bd_ret.kind = "module" \/ bd_sub.kind = "module")

\* a ResetSynchronizer with max_input_delay set has failed on a platform
\* without hooks
C15_Witness ==
    /\ bd_gen.cls = "ResetSynchronizer"
    /\ bd_gen.mid = "set"
    /\ bd_platform = {}
    /\ bd_pc = "failed"
    /\ bd_err = "NotImplementedError"

\* C16: if the platform defines get_reset_sync, the elaborate of a
\* ResetSynchronizer returns that method's result for this generator.
C16_ResetSyncHookOverrides ==
    (/\ Elaborated
     /\ bd_gen.cls = "ResetSynchronizer"
     /\ "get_reset_sync" \in bd_platform) =>
        bd_ret = Hooked("get_reset_sync", bd_gen)

====
